---------------------------- MODULE Spec2Model ----------------------------
(***************************************************************************)
(* Model of commitgen's generate() command (src/commitgen/cli.py).         *)
(*                                                                         *)
(* Text (the staged diff, a provider reply, a title, a body, what the user *)
(* types) is a sequence of one-character strings, so that strip(), split(),*)
(* lower() and the regular-expression searches are computed character by   *)
(* character as Python computes them.  The fixed messages the command      *)
(* echoes are plain strings.                                               *)
(***************************************************************************)
EXTENDS Naturals, Sequences, FiniteSets

\* ------------------------------------------------------------------ bounds

\* Longest run of whitespace put in front of a provider reply or a diff.
MaxPad == 1
\* Longest run of whitespace put between the two words of a candidate title.
MaxWs == 2

\* --------------------------------------------------------- character level

\* Text is drawn from ISO 8859-1 (U+0000..U+00FF, the grave accent U+0060
\* aside) and U+1680; the tables below are Python's on these characters.

\* The characters c of the alphabet with c.lower() # c, and their c.lower():
\* A-Z, U+00C0..U+00D6 and U+00D8..U+00DE.
UpperCase == <<"A","B","C","D","E","F","G","H","I","J","K","L","M","N","O","P","Q","R","S","T","U","V","W","X","Y","Z","À","Á","Â","Ã","Ä","Å","Æ","Ç","È","É","Ê","Ë","Ì","Í","Î","Ï","Ð","Ñ","Ò","Ó","Ô","Õ","Ö","Ø","Ù","Ú","Û","Ü","Ý","Þ">>
LowerCase == <<"a","b","c","d","e","f","g","h","i","j","k","l","m","n","o","p","q","r","s","t","u","v","w","x","y","z","à","á","â","ã","ä","å","æ","ç","è","é","ê","ë","ì","í","î","ï","ð","ñ","ò","ó","ô","õ","ö","ø","ù","ú","û","ü","ý","þ">>

\* The characters of the alphabet for which str.isspace() holds, which are
\* those str.strip() drops and \s matches: U+0009..U+000D, U+001C..U+001F,
\* U+0020, U+0085, U+00A0, U+1680.
WhitespaceChars == <<"\t","\n","","\f","\r","","","",""," ",""," "," ">>

WhitespaceSet == {WhitespaceChars[i] : i \in 1..Len(WhitespaceChars)}

IsSpace(c) == c \in WhitespaceSet

\* str.lower() on one character.
UpperSet == {UpperCase[i] : i \in 1..Len(UpperCase)}
LowerOf == [c \in UpperSet |-> LowerCase[CHOOSE i \in 1..Len(UpperCase) : UpperCase[i] = c]]

LowerChar(c) == IF c \in UpperSet THEN LowerOf[c] ELSE c

\* str.lower()
Lower(s) == [i \in 1..Len(s) |-> LowerChar(s[i])]

\* str.strip() without an argument: the whitespace of both ends is dropped.
Strip(s) ==
  LET keep == {i \in 1..Len(s) : ~IsSpace(s[i])}
  IN  IF keep = {} THEN << >>
      ELSE LET lo == CHOOSE i \in keep : \A j \in keep : i <= j
               hi == CHOOSE i \in keep : \A j \in keep : j <= i
           IN  SubSeq(s, lo, hi)

\* str.split("\n", 1): the text before the first newline and, when there is
\* a newline, the text after it.
SplitFirstLine(s) ==
  LET nl == {i \in 1..Len(s) : s[i] = "\n"}
  IN  IF nl = {} THEN << s >>
      ELSE LET k == CHOOSE i \in nl : \A j \in nl : i <= j
           IN  << SubSeq(s, 1, k - 1), SubSeq(s, k + 1, Len(s)) >>

\* ------------------------------------------------- regular expressions

\* A compiled pattern is a sequence of pieces: an alternation of literal
\* words, or \s+ (one or more whitespace characters).
Alt(ws) == [kind |-> "alt", words |-> ws]
WsPlus == [kind |-> "ws", words |-> {}]

\* Whether word w stands in s at position i, letters compared without case
\* (re.IGNORECASE): on the alphabet, two characters are equal without case
\* exactly when their lower() are equal.
WordAt(s, i, w) ==
  /\ i + Len(w) - 1 <= Len(s)
  /\ \A j \in 1..Len(w) : LowerChar(s[i + j - 1]) = LowerChar(w[j])

RECURSIVE MatchFrom(_, _, _, _)
\* Whether pieces k.. of pattern p match s from position i on.
MatchFrom(p, k, s, i) ==
  IF k > Len(p) THEN TRUE
  ELSE IF p[k].kind = "alt"
    THEN \E w \in p[k].words :
           WordAt(s, i, w) /\ MatchFrom(p, k + 1, s, i + Len(w))
    ELSE \E n \in 1..(Len(s) - i + 1) :
           /\ \A j \in i..(i + n - 1) : IsSpace(s[j])
           /\ MatchFrom(p, k + 1, s, i + n)

\* pattern.search(s): a match starting anywhere in s.
Search(p, s) == \E i \in 1..(Len(s) + 1) : MatchFrom(p, 1, s, i)

\* (add|remove) debug      (print|log)\s+statement     minor\s+(change|update)
LOW_VALUE_PATTERNS_NoUpdate ==
  << << Alt({<<"a","d","d">>, <<"r","e","m","o","v","e">>}), Alt({<<" ","d","e","b","u","g">>}) >>,
     << Alt({<<"p","r","i","n","t">>, <<"l","o","g">>}), WsPlus, Alt({<<"s","t","a","t","e","m","e","n","t">>}) >>,
     << Alt({<<"m","i","n","o","r">>}), WsPlus, Alt({<<"c","h","a","n","g","e">>}) >> >>
LOW_VALUE_PATTERNS ==
  << << Alt({<<"a","d","d">>, <<"r","e","m","o","v","e">>}), Alt({<<" ","d","e","b","u","g">>}) >>,
     << Alt({<<"p","r","i","n","t">>, <<"l","o","g">>}), WsPlus, Alt({<<"s","t","a","t","e","m","e","n","t">>}) >>,
     << Alt({<<"m","i","n","o","r">>}), WsPlus, Alt({<<"c","h","a","n","g","e">>, <<"u","p","d","a","t","e">>}) >> >>

is_low_value_commit(title) ==
  \E k \in 1..Len(LOW_VALUE_PATTERNS) : Search(LOW_VALUE_PATTERNS[k], title)

\* ------------------------------------------------------ pipeline functions

\* The return code and output of `git diff --cached` become the diff: the
\* output on success, the empty string otherwise.
get_full_staged_diff_IgnoresRc(rc, stdout) == stdout
get_full_staged_diff(rc, stdout) == IF rc = 0 THEN stdout ELSE << >>

\* The fixed text of the prompt in front of the diff (instructions, few-shot
\* examples, the closing request), each part abbreviated to one element.
PROMPT_HEAD == << "<instructions>", "<FEW_SHOT_EXAMPLES>", "<now write>", "\n" >>

\* The f-string of query_commit_message: the fixed text, the diff, a newline.
BuildPrompt_Stripped(diff) == PROMPT_HEAD \o Strip(diff) \o << "\n" >>
BuildPrompt(diff) == PROMPT_HEAD \o diff \o << "\n" >>

\* The parsing of a reply: the first line of the stripped reply is the
\* title, what follows the first newline is the body, both stripped.
ParseResponse(content) ==
  LET lines == SplitFirstLine(Strip(content))
  IN  [title |-> Strip(lines[1]),
       body  |-> IF Len(lines) > 1 THEN Strip(lines[2]) ELSE << >>]

\* typer.prompt(..., default="y") followed by .lower(): an empty input line
\* gives the default.
confirm_commit(input) == Lower(IF input = << >> THEN <<"y">> ELSE input)

\* The if / elif / else of generate() on the user's choice.
Branch_DefaultCommits(choice) ==
  IF choice = <<"s">> THEN "skip"
  ELSE IF choice = <<"r">> THEN "regenerate"
  ELSE "commit"
Branch_SkipFallsThrough(choice) ==
  IF choice = <<"y">> THEN "commit" ELSE "regenerate"
Branch(choice) ==
  IF choice = <<"y">> THEN "commit"
  ELSE IF choice = <<"s">> THEN "skip"
  ELSE "regenerate"

\* The text make_commit writes to the message file.
CommitFileText(title, body) ==
  IF body # << >> THEN title \o <<"\n","\n">> \o body ELSE title

\* range(3)
MaxAttempts_Four == 3 + 1
MaxAttempts == 3

\* The messages generate() echoes.
MsgNoStaged    == "No staged changes detected."
MsgLowValue    == "Detected low-value commit. Skipping."
MsgCreated     == "Commit created successfully!"
MsgSkipped     == "Commit skipped."
MsgRegenerate  == "Regenerating commit message..."
MsgMaxRetries  == "Maximum retries reached. Aborting commit."

\* ------------------------------------------------------------------ inputs

\* All sequences over the characters cs of length at most n.
RECURSIVE SeqsUpTo(_, _)
SeqsUpTo(cs, n) ==
  IF n = 0 THEN {<< >>}
  ELSE LET shorter == SeqsUpTo(cs, n - 1)
       IN  shorter \cup {<< c >> \o s : c \in cs, s \in {t \in shorter : Len(t) = n - 1}}

\* What `git diff --cached` may print, and its return codes.
DiffBodies == { << >>, <<"+","x","\n">>, <<"","","\n">> }
Diffs == { pad \o d : pad \in SeqsUpTo({" ", "\n"}, MaxPad), d \in DiffBodies }
DiffReturnCodes == {0, 1}

\* Two-word titles: the words of the low-value patterns, in some case,
\* separated by a run of blanks and tabs of length 0..MaxWs.
WordPairs ==
  { << <<"m","i","n","o","r">>, <<"u","p","d","a","t","e">> >>, << <<"M","i","n","o","r">>, <<"C","H","A","N","G","E">> >>,
    << <<"a","d","d">>, <<"d","e","b","u","g">> >>, << <<"p","r","i","n","t">>, <<"s","t","a","t","e","m","e","n","t">> >> }
TwoWordTitles ==
  { <<"f","i","x",":"," ">> \o p[1] \o ws \o p[2] : p \in WordPairs, ws \in SeqsUpTo({" ", "\t"}, MaxWs) }

\* Other replies: well-formed, with a body, bold, with a preamble, fenced,
\* a low-value phrase broken over two lines, empty, and replies with the
\* whitespace characters U+000B, U+001C, U+0085, U+00A0, U+1680.
OtherReplies ==
  { <<"f","e","a","t",":"," ","a","d","d"," ","x">>,
    <<"f","e","a","t","(","a","p","i",")",":"," ","a","d","d"," ","e","n","d","p","o","i","n","t","\n","n","o","t","e","s">>,
    <<"*","*","f","e","a","t","(","a","p","i",")",":"," ","a","d","d"," ","e","n","d","p","o","i","n","t","*","*","\n","n","o","t","e","s">>,
    <<"H","e","r","e"," ","i","s"," ","t","h","e"," ","c","o","m","m","i","t",":","\n","f","i","x",":"," ","y">>,
    <<"~","~","~","\n","f","i","x",":"," ","y","\n","~","~","~">>,
    <<"c","h","o","r","e",":"," ","a","d","d"," ","d","e","b","u","g"," ","l","o","g">>,
    <<"c","h","o","r","e",":"," ","m","i","n","o","r","\n","u","p","d","a","t","e">>,
    <<"R","e","m","o","v","e"," ","D","e","b","u","g","\r","\n","l","o","g"," "," ","s","t","a","t","e","m","e","n","t">>,
    <<"","f","i","x",":"," ","y","","\n","n","o","t","e","s","">>,
    <<"f","i","x",":"," ","m","i","n","o","r","","u","p","d","a","t","e">>,
    <<"f","i","x",":"," ","L","O","G"," ","","s","t","a","t","e","m","e","n","t","">>,
    <<" ","d","o","c","s",":"," ","a","d","d"," ","d","e","b","u","g">>,
    << >> }
Replies ==
  { pad \o r \o tail : pad \in SeqsUpTo({" ", "\n"}, MaxPad),
                       r \in TwoWordTitles \cup OtherReplies,
                       tail \in { << >>, <<"\n">> } }

\* What the user may type at the prompt.
UserInputs ==
  { << >>, <<"y">>, <<"Y">>, <<"s">>, <<"S">>, <<"r">>, <<"n">>, <<"n","o">> }

\* Return codes of `git commit -F <file>`.
CommitReturnCodes == {0, 1}

\* ------------------------------------------------------------------- state

VARIABLES
  pc,          \* where generate() stands: start, query, check, confirm, commit, done
  result,      \* how generate() ended, "none" while it runs
  gitRc,       \* return code of `git diff --cached`
  gitStdout,   \* output of `git diff --cached`
  diff,        \* generate()'s local diff
  diffReads,   \* number of calls of get_full_staged_diff
  attempt,     \* iteration of the for loop, 1..3 (0 before the loop)
  requests,    \* the completion requests sent, in order
  title,       \* generate()'s local title
  body,        \* generate()'s local body
  checks,      \* number of low-value checks made
  prompts,     \* number of confirmation prompts shown
  choice,      \* the last answer, as confirm_commit returned it
  commits,     \* the `git commit` calls made: message file text and return code
  out          \* the messages echoed, in order

vars == << pc, result, gitRc, gitStdout, diff, diffReads, attempt, requests,
           title, body, checks, prompts, choice, commits, out >>

Init ==
  /\ pc = "start"
  /\ result = "none"
  /\ gitRc \in DiffReturnCodes
  /\ gitStdout \in Diffs
  /\ diff = << >>
  /\ diffReads = 0
  /\ attempt = 0
  /\ requests = << >>
  /\ title = << >>
  /\ body = << >>
  /\ checks = 0
  /\ prompts = 0
  /\ choice = << >>
  /\ commits = << >>
  /\ out = << >>

\* ----------------------------------------------------------------- actions

\* diff = get_full_staged_diff(); the "no staged changes" exit; loop entry.
GetDiff ==
  /\ pc = "start"
  /\ diff' = get_full_staged_diff(gitRc, gitStdout)
  /\ diffReads' = diffReads + 1
  /\ IF Strip(diff') = << >>
       THEN /\ out' = Append(out, MsgNoStaged)
            /\ result' = "NoStagedChanges"
            /\ pc' = "done"
            /\ attempt' = attempt
       ELSE /\ out' = out
            /\ result' = result
            /\ pc' = "query"
            /\ attempt' = 1
  /\ UNCHANGED << gitRc, gitStdout, requests, title, body, checks, prompts,
                  choice, commits >>

\* query_commit_message(diff) when the provider answers with reply.
QueryOk(reply) ==
  /\ pc = "query"
  /\ requests' = Append(requests, [prompt |-> BuildPrompt(diff), ok |-> TRUE])
  /\ title' = ParseResponse(reply).title
  /\ body' = ParseResponse(reply).body
  /\ pc' = "check"
  /\ UNCHANGED << result, gitRc, gitStdout, diff, diffReads, attempt, checks,
                  prompts, choice, commits, out >>

\* query_commit_message(diff) when the completion call raises: nothing
\* catches the exception, generate() ends with it.
QueryFail_Retry ==
  /\ pc = "query"
  /\ requests' = Append(requests, [prompt |-> BuildPrompt(diff), ok |-> FALSE])
  /\ IF attempt < MaxAttempts
       THEN /\ attempt' = attempt + 1
            /\ pc' = "query"
            /\ result' = result
       ELSE /\ attempt' = attempt
            /\ pc' = "done"
            /\ result' = "ProviderFailure"
  /\ UNCHANGED << gitRc, gitStdout, diff, diffReads, title, body,
                  checks, prompts, choice, commits, out >>
QueryFail ==
  /\ pc = "query"
  /\ requests' = Append(requests, [prompt |-> BuildPrompt(diff), ok |-> FALSE])
  /\ result' = "ProviderFailure"
  /\ pc' = "done"
  /\ UNCHANGED << gitRc, gitStdout, diff, diffReads, attempt, title, body,
                  checks, prompts, choice, commits, out >>

\* if is_low_value_commit(title): echo and exit; otherwise confirm_commit
\* shows the title and the body and waits for the answer.
CheckLowValue_FirstAttemptOnly ==
  /\ pc = "check"
  /\ checks' = checks + 1
  /\ IF attempt = 1 /\ is_low_value_commit(title)
       THEN /\ out' = Append(out, MsgLowValue)
            /\ result' = "LowValue"
            /\ pc' = "done"
            /\ UNCHANGED prompts
       ELSE /\ prompts' = prompts + 1
            /\ pc' = "confirm"
            /\ UNCHANGED << out, result >>
  /\ UNCHANGED << gitRc, gitStdout, diff, diffReads, attempt, requests,
                  title, body, choice, commits >>
CheckLowValue ==
  /\ pc = "check"
  /\ checks' = checks + 1
  /\ IF is_low_value_commit(title)
       THEN /\ out' = Append(out, MsgLowValue)
            /\ result' = "LowValue"
            /\ pc' = "done"
            /\ UNCHANGED prompts
       ELSE /\ prompts' = prompts + 1
            /\ pc' = "confirm"
            /\ UNCHANGED << out, result >>
  /\ UNCHANGED << gitRc, gitStdout, diff, diffReads, attempt, requests,
                  title, body, choice, commits >>

\* The user's answer to the prompt and the branch generate() takes on it.
Confirm(input) ==
  /\ pc = "confirm"
  /\ choice' = confirm_commit(input)
  /\ LET branch == Branch(choice')
     IN  \/ /\ branch = "commit"
            /\ pc' = "commit"
            /\ UNCHANGED << result, attempt, out >>
         \/ /\ branch = "skip"
            /\ out' = Append(out, MsgSkipped)
            /\ result' = "Skipped"
            /\ pc' = "done"
            /\ UNCHANGED attempt
         \/ /\ branch = "regenerate"
            /\ IF attempt < MaxAttempts
                 THEN /\ out' = Append(out, MsgRegenerate)
                      /\ attempt' = attempt + 1
                      /\ pc' = "query"
                      /\ UNCHANGED result
                 ELSE /\ out' = out \o << MsgRegenerate, MsgMaxRetries >>
                      /\ result' = "Aborted"
                      /\ pc' = "done"
                      /\ UNCHANGED attempt
  /\ UNCHANGED << gitRc, gitStdout, diff, diffReads, requests, title, body,
                  checks, prompts, commits >>

\* make_commit(title, body): the message file is written and `git commit`
\* runs with return code rc, which nothing reads; then the success echo.
MakeCommit(rc) ==
  /\ pc = "commit"
  /\ commits' = Append(commits, [text |-> CommitFileText(title, body), rc |-> rc])
  /\ out' = Append(out, MsgCreated)
  /\ result' = "Confirmed"
  /\ pc' = "done"
  /\ UNCHANGED << gitRc, gitStdout, diff, diffReads, attempt, requests, title,
                  body, checks, prompts, choice >>

Next ==
  \/ GetDiff
  \/ \E reply \in Replies : QueryOk(reply)
  \/ QueryFail
  \/ CheckLowValue
  \/ \E input \in UserInputs : Confirm(input)
  \/ \E rc \in CommitReturnCodes : MakeCommit(rc)

Spec == Init /\ [][Next]_vars

\* The low-value check called on its own: is_low_value_commit applied to any
\* text, also one that did not come through the reply parsing.
InitLowValue ==
  /\ pc = "check"
  /\ result = "none"
  /\ gitRc = 0
  /\ gitStdout = <<"+","x","\n">>
  /\ diff = gitStdout
  /\ diffReads = 1
  /\ attempt = 1
  /\ requests = << [prompt |-> BuildPrompt(diff), ok |-> TRUE] >>
  /\ title \in Replies
  /\ body = << >>
  /\ checks = 0
  /\ prompts = 0
  /\ choice = << >>
  /\ commits = << >>
  /\ out = << >>

NextLowValue == CheckLowValue

SpecLowValue == InitLowValue /\ [][NextLowValue]_vars

\* ------------------------------------------------- vocabulary of the claims

\* Number of times msg was echoed.
Count(msg) == Cardinality({i \in 1..Len(out) : out[i] = msg})

\* The last message echoed, "" when there is none.
LastOut == IF out = << >> THEN "" ELSE out[Len(out)]

AllWhitespace(s) == \A i \in 1..Len(s) : IsSpace(s[i])

\* Whether w is a substring of s, characters compared as they are.
Contains(s, w) ==
  \E i \in 1..(Len(s) - Len(w) + 1) : SubSeq(s, i, i + Len(w) - 1) = w

\* u is word a, one or more whitespace characters, word b.
TwoWords(u, a, b) ==
  /\ Len(u) > Len(a) + Len(b)
  /\ SubSeq(u, 1, Len(a)) = a
  /\ SubSeq(u, Len(u) - Len(b) + 1, Len(u)) = b
  /\ \A i \in (Len(a) + 1)..(Len(u) - Len(b)) : IsSpace(u[i])

\* The texts the three low-value patterns describe, in lower case.
LowValuePhrase(u) ==
  \/ u \in {<<"a","d","d"," ","d","e","b","u","g">>, <<"r","e","m","o","v","e"," ","d","e","b","u","g">>}
  \/ \E a \in {<<"p","r","i","n","t">>, <<"l","o","g">>} : TwoWords(u, a, <<"s","t","a","t","e","m","e","n","t">>)
  \/ \E b \in {<<"c","h","a","n","g","e">>, <<"u","p","d","a","t","e">>} : TwoWords(u, <<"m","i","n","o","r">>, b)

\* Some part of t is, case aside, a low-value phrase.
HasLowValuePhrase(t) ==
  \E i \in 1..Len(t) : \E j \in i..Len(t) : LowValuePhrase(Lower(SubSeq(t, i, j)))

\* The conventional-commit grammar
\*   ^(feat|fix|chore|docs|refactor|style|test)(\([\w-]+\))?: .+
CommitTypes ==
  { <<"f","e","a","t">>, <<"f","i","x">>, <<"c","h","o","r","e">>, <<"d","o","c","s">>, <<"r","e","f","a","c","t","o","r">>, <<"s","t","y","l","e">>, <<"t","e","s","t">> }

\* [\w-] on the alphabet: the characters Python's \w matches, and the dash.
WordOrDashChars == <<"-","0","1","2","3","4","5","6","7","8","9","A","B","C","D","E","F","G","H","I","J","K","L","M","N","O","P","Q","R","S","T","U","V","W","X","Y","Z","_","a","b","c","d","e","f","g","h","i","j","k","l","m","n","o","p","q","r","s","t","u","v","w","x","y","z","ª","²","³","µ","¹","º","¼","½","¾","À","Á","Â","Ã","Ä","Å","Æ","Ç","È","É","Ê","Ë","Ì","Í","Î","Ï","Ð","Ñ","Ò","Ó","Ô","Õ","Ö","Ø","Ù","Ú","Û","Ü","Ý","Þ","ß","à","á","â","ã","ä","å","æ","ç","è","é","ê","ë","ì","í","î","ï","ð","ñ","ò","ó","ô","õ","ö","ø","ù","ú","û","ü","ý","þ","ÿ">>

IsWordOrDash(c) == \E i \in 1..Len(WordOrDashChars) : WordOrDashChars[i] = c

\* r is ": " followed by at least one character that is no newline.
ColonSummary(r) ==
  /\ Len(r) >= 3
  /\ r[1] = ":"
  /\ r[2] = " "
  /\ r[3] # "\n"

MatchesGrammar(t) ==
  \E ty \in CommitTypes :
    /\ Len(t) > Len(ty)
    /\ SubSeq(t, 1, Len(ty)) = ty
    /\ LET r == SubSeq(t, Len(ty) + 1, Len(t))
       IN  \/ ColonSummary(r)
           \/ /\ r[1] = "("
              /\ \E j \in 3..Len(r) :
                   /\ r[j] = ")"
                   /\ \A k \in 2..(j - 1) : IsWordOrDash(r[k])
                   /\ ColonSummary(SubSeq(r, j + 1, Len(r)))

FallbackTitle == <<"c","h","o","r","e",":"," ","u","p","d","a","t","e">>

\* ------------------------------------------------------------------ claims

\* C1 as stated: when the third attempt has ended with an answer other than
\* yes, the run is Aborted: the exhaustion is the last message echoed, 3
\* provider requests were made and nothing was committed.
C1_ThirdAttemptWithoutYesAborts ==
  (pc = "done" /\ attempt = 3 /\ prompts = 3 /\ choice # <<"y">>) =>
    /\ result = "Aborted"
    /\ LastOut = MsgMaxRetries
    /\ Len(requests) = 3
    /\ commits = << >>

\* C1, amended: a regenerate answer (any answer other than "y" and "s")
\* starts one new generation attempt, at most 3 attempts are made, and when
\* the third attempt ends with a regenerate answer the run is Aborted: the
\* exhaustion is the last message echoed, exactly 3 provider requests were
\* made and nothing was committed.  The run is Aborted in no other case: a
\* third attempt answered "s" ends Skipped.
C1_RegenerateBoundedToThree ==
  LET regens == Count(MsgRegenerate)
  IN  /\ regens <= 3
      /\ Len(requests) <= 3
      /\ attempt <= 3
      /\ (attempt >= 1 /\ regens < 3) => attempt = regens + 1
      /\ regens < 3 => result # "Aborted" /\ Count(MsgMaxRetries) = 0
      /\ regens = 3 => /\ result = "Aborted"
                       /\ pc = "done"
                       /\ LastOut = MsgMaxRetries
                       /\ Len(requests) = 3
                       /\ commits = << >>
      /\ choice = <<"r">> => regens >= 1 /\ commits = << >>
      /\ (pc = "done" /\ attempt = 3 /\ prompts = 3) =>
           /\ choice \notin {<<"y">>, <<"s">>} => regens = 3 /\ result = "Aborted"
           /\ choice = <<"s">> => regens = 2 /\ result = "Skipped"

C1_Witness == result = "Aborted" /\ choice = <<"r">> /\ Len(requests) = 3

\* C2: `git commit` runs at most once in a run, only after the answer "y" to
\* the prompt of the current attempt and with the title and body of that
\* attempt as its message; a run that ends Skipped or Aborted has made no
\* commit.
C2_CommitOnlyAfterYes ==
  /\ Len(commits) <= 1
  /\ pc = "commit" => choice = <<"y">> /\ prompts = attempt
  /\ commits # << >> => /\ choice = <<"y">>
                        /\ result = "Confirmed"
                        /\ prompts = attempt
                        /\ commits[1].text = CommitFileText(title, body)
  /\ result \in {"Skipped", "Aborted"} => commits = << >>

C2_Witness == Len(commits) = 1 /\ attempt = 2 /\ body # << >>

\* C3 as stated: in Generated, the answer skip ("s") and the answer no ("n",
\* "no") alike end the run Skipped, with no further request and no commit.
C3_SkipOrNoSkips ==
  choice \in {<<"s">>, <<"n">>, <<"n","o">>} =>
    /\ result = "Skipped"
    /\ pc = "done"
    /\ Len(requests) = attempt
    /\ commits = << >>

\* C3, amended: the answer "s" ends the run Skipped, with no further request
\* and no commit; the answers "n" and "no" do not: they regenerate, as every
\* answer other than "y" and "s" does.
C3_SkipChoiceSkips ==
  /\ choice = <<"s">> => /\ result = "Skipped"
                       /\ pc = "done"
                       /\ LastOut = MsgSkipped
                       /\ Len(requests) = attempt
                       /\ commits = << >>
  /\ result = "Skipped" => choice = <<"s">>
  /\ choice \in {<<"n">>, <<"n","o">>} => /\ result # "Skipped"
                                   /\ Count(MsgRegenerate) >= 1
                                   /\ Count(MsgSkipped) = 0

C3_Witness == result = "Skipped" /\ attempt = 2 /\ choice = <<"s">>

\* C4: when `git diff --cached` fails or prints nothing but whitespace, the
\* run ends with the "no staged changes" notice alone: no provider request,
\* no low-value check, no prompt, no commit.
C4_NoStagedChangesStops ==
  /\ (pc # "start" /\ (gitRc # 0 \/ AllWhitespace(gitStdout))) =>
       /\ result = "NoStagedChanges"
       /\ pc = "done"
       /\ out = << MsgNoStaged >>
       /\ requests = << >>
       /\ checks = 0
       /\ prompts = 0
       /\ commits = << >>
  /\ result = "NoStagedChanges" => gitRc # 0 \/ AllWhitespace(gitStdout)

C4_Witness ==
  result = "NoStagedChanges" /\ gitRc # 0 /\ ~AllWhitespace(gitStdout)

\* C5: on every attempt, a title classified low-value ends the run at once:
\* the prompts shown are those of the earlier attempts, the requests made are
\* those up to this attempt, nothing is committed; and no prompt ever shows
\* a low-value title.
C5_LowValueAbandons ==
  /\ (pc # "check" /\ is_low_value_commit(title)) =>
       /\ result = "LowValue"
       /\ pc = "done"
       /\ LastOut = MsgLowValue
       /\ prompts = attempt - 1
       /\ Len(requests) = attempt
       /\ commits = << >>
  /\ pc \in {"confirm", "commit"} => ~is_low_value_commit(title)

C5_Witness == result = "LowValue" /\ attempt = 2 /\ prompts = 1

\* C6: a run in which `git commit` returned non-zero never echoes that the
\* commit was created.
C6_FailedCommitNotReportedCreated ==
  \A i \in 1..Len(commits) : commits[i].rc # 0 => Count(MsgCreated) = 0

\* C7: once a reply has been parsed, the title matches the conventional-commit
\* grammar or is the fallback title.
C7_TitleConventionalOrFallback ==
  (\E i \in 1..Len(requests) : requests[i].ok) =>
    MatchesGrammar(title) \/ title = FallbackTitle

\* C8: a failed completion request is the last one of the run: the run ends
\* with the fault in the attempt of that request, which gets no low-value
\* check and no prompt, and nothing is committed.
C8_ProviderFailureIsFatal ==
  /\ \A i \in 1..Len(requests) :
       ~requests[i].ok => /\ i = Len(requests)
                          /\ result = "ProviderFailure"
                          /\ pc = "done"
                          /\ attempt = i
                          /\ checks = i - 1
                          /\ prompts = i - 1
                          /\ commits = << >>
  /\ result = "ProviderFailure" =>
       requests # << >> /\ ~requests[Len(requests)].ok

C8_Witness == result = "ProviderFailure" /\ attempt = 2

\* C9: the low-value check of a text answers yes exactly when some part of
\* the text is, case aside, one of the phrases of the three patterns; so it
\* answers yes for every text that contains "minor update".
C9_LowValueIffPattern ==
  pc # "check" =>
    /\ (result = "LowValue") <=> HasLowValuePhrase(title)
    /\ Contains(title, <<"m","i","n","o","r"," ","u","p","d","a","t","e">>) => result = "LowValue"

C9_Witness ==
  pc = "done" /\ result = "LowValue" /\ Contains(title, <<"m","i","n","o","r"," ","u","p","d","a","t","e">>)

\* C10: the diff is read once and stays what `git diff --cached` printed;
\* each attempt makes exactly one request, whose prompt ends with that
\* unmodified text and a newline; an attempt's request comes before its
\* low-value check, and that before its prompt; at most 3 requests are made.
C10_OneRequestPerAttemptSameDiff ==
  /\ pc # "start" => diffReads = 1 /\ diff = (IF gitRc = 0 THEN gitStdout ELSE << >>)
  /\ Len(requests) <= 3
  /\ \A i \in 1..Len(requests) :
       LET p == requests[i].prompt
       IN  /\ Len(p) = Len(PROMPT_HEAD) + Len(gitStdout) + 1
           /\ SubSeq(p, Len(PROMPT_HEAD) + 1, Len(p) - 1) = gitStdout
  /\ Len(requests) = (IF pc = "query" THEN attempt - 1 ELSE attempt)
  /\ checks <= Len(requests)
  /\ prompts <= checks
  /\ pc = "check" => checks = attempt - 1
  /\ pc = "confirm" => checks = attempt /\ prompts = attempt

C10_Witness ==
  Len(requests) = 3 /\ prompts = 3 /\ IsSpace(gitStdout[1])

=============================================================================
